---- MODULE Spec2Model ----
(***************************************************************************)
(* Genre extraction from wikitext (genre_script.py) and the artist network *)
(* built from the pages' links (rock_network.py).                          *)
(*                                                                         *)
(* A Python str is modelled as a sequence of one-character strings, so     *)
(* that every regular-expression pass of the source is an operator that    *)
(* computes what the pass computes.  Three characters that cannot be       *)
(* written in a TLA+ string literal are named atoms: Backtick (U+0060),    *)
(* Bullet (U+2022) and MidDot (U+00B7).                                    *)
(***************************************************************************)
EXTENDS Integers, Sequences, FiniteSets, TLC

VARIABLES
    raw, once, twice, npc,                      \* normalize_genre applied twice
    field_text, parsed, ppc,                    \* parse_genre_field on one field text
    template_span, raw_genres,                  \* ... its matched list template, its labels
    found, txt_files, file_name, content,       \* process_wiki_files: the loop over files
    artist_name, genre_field, genres, artist_genres, success_count, failure_count,
    artist_list, wiki_data, gpc,                \* build_artist_network: its arguments
    source_artist, nodes, edges, word_count, links_found   \* ... the graph G and the statistics

nvars == <<raw, once, twice, npc>>
pvars == <<field_text, template_span, raw_genres, parsed, ppc>>
bvars == <<found, txt_files, file_name, content, artist_name, genre_field, genres,
           artist_genres, success_count, failure_count>>
gvars == <<artist_list, wiki_data, gpc, source_artist, nodes, edges, word_count, links_found>>
vars == <<nvars, pvars, bvars, gvars>>

\* Python's None, for a str (a sequence of characters) and for a list of str
None == <<"None">>
NoneList == <<None>>

-----------------------------------------------------------------------------
(* Characters and the str methods the source uses. *)

Backtick == "backtick"
Bullet == "bullet"
MidDot == "middot"

WS == {" ", "\n", "\t"}

\* str.lower() on the ASCII letters
LowerOf ==
    [c \in {"A","B","C","D","E","F","G","H","I","J","K","L","M","N","O","P","Q","R","S","T","U","V","W","X","Y","Z"} |->
        CASE c = "A" -> "a" [] c = "B" -> "b" [] c = "C" -> "c" [] c = "D" -> "d" [] c = "E" -> "e"
          [] c = "F" -> "f" [] c = "G" -> "g" [] c = "H" -> "h" [] c = "I" -> "i" [] c = "J" -> "j"
          [] c = "K" -> "k" [] c = "L" -> "l" [] c = "M" -> "m" [] c = "N" -> "n" [] c = "O" -> "o"
          [] c = "P" -> "p" [] c = "Q" -> "q" [] c = "R" -> "r" [] c = "S" -> "s" [] c = "T" -> "t"
          [] c = "U" -> "u" [] c = "V" -> "v" [] c = "W" -> "w" [] c = "X" -> "x" [] c = "Y" -> "y"
          [] c = "Z" -> "z"]

LowerChar(c) == IF c \in DOMAIN LowerOf THEN LowerOf[c] ELSE c

Lower(s) == SubSeq([k \in 1..Len(s) |-> LowerChar(s[k])], 1, Len(s))

MinOf(S) == CHOOSE x \in S : \A y \in S : x <= y
MaxOf(S) == CHOOSE x \in S : \A y \in S : x >= y

\* the first index >= i of a non-whitespace character, Len(s) + 1 when there is none
RECURSIVE SkipWS(_, _)
SkipWS(s, i) == IF i > Len(s) \/ s[i] \notin WS THEN i ELSE SkipWS(s, i + 1)

\* the last index <= i of a non-whitespace character, 0 when there is none
RECURSIVE SkipWSBack(_, _)
SkipWSBack(s, i) == IF i < 1 \/ s[i] \notin WS THEN i ELSE SkipWSBack(s, i - 1)

\* str.strip()
Strip(s) == SubSeq(s, SkipWS(s, 1), SkipWSBack(s, Len(s)))

\* the first index k >= from with s[k] in cs, 0 when there is none
IndexOfChar(s, cs, from) ==
    LET S == {k \in from..Len(s) : s[k] \in cs}
    IN  IF S = {} THEN 0 ELSE MinOf(S)

\* s[i:].startswith(p) for a non-empty p, 1-based
StartsAt(s, p, i) ==
    /\ i >= 1
    /\ i + Len(p) - 1 <= Len(s)
    /\ s[i] = p[1]
    /\ SubSeq(s, i, i + Len(p) - 1) = p

\* s.find(p, from), 1-based, 0 when absent
Find(s, p, from) ==
    LET S == {k \in from..Len(s) : StartsAt(s, p, k)}
    IN  IF S = {} THEN 0 ELSE MinOf(S)

Contains(s, p) == Find(s, p, 1) # 0

\* s.count(c) for a one-character c
Count(s, c) == Cardinality({k \in 1..Len(s) : s[k] = c})

RemoveChars(s, cs) == SelectSeq(s, LAMBDA c : c \notin cs)

\* s.replace(a, b) for one-character a, b
ReplaceChar(s, a, b) == SubSeq([k \in 1..Len(s) |-> IF s[k] = a THEN b ELSE s[k]], 1, Len(s))

\* the end of the run of non-whitespace that starts at b
RunEnd(s, b) ==
    LET e == IndexOfChar(s, WS, b)
    IN  IF e = 0 THEN Len(s) ELSE e - 1

\* re.split on single delimiter characters (runs = FALSE) or on runs of them
\* (runs = TRUE): the pieces of s from index i on
RECURSIVE SplitAt(_, _, _, _)
SplitAt(s, cs, runs, i) ==
    LET k == IndexOfChar(s, cs, i)
        S == {j \in k..Len(s) : s[j] \notin cs}
        next == IF ~runs THEN k + 1 ELSE IF S = {} THEN Len(s) + 1 ELSE MinOf(S)
    IN  IF k = 0 THEN <<SubSeq(s, i, Len(s))>>
        ELSE <<SubSeq(s, i, k - 1)>> \o SplitAt(s, cs, runs, next)

\* sep.join(parts)
RECURSIVE Join(_, _, _)
Join(parts, sep, i) ==
    IF i > Len(parts) THEN <<>>
    ELSE IF i = Len(parts) THEN parts[i]
    ELSE parts[i] \o sep \o Join(parts, sep, i + 1)

\* ' '.join(s.split()): split() with no argument drops the empty pieces
JoinSplit(s) ==
    Join(SelectSeq(SplitAt(s, WS, TRUE, 1), LAMBDA w : w # <<>>), <<" ">>, 1)

\* re.sub over all non-overlapping leftmost matches: ends[i] is the last index of
\* the match that starts at i (0: no match at i), repls[i] its replacement.
RECURSIVE Rewrite(_, _, _, _)
Rewrite(s, ends, repls, i) ==
    LET S == {k \in i..Len(s) : ends[k] # 0}
    IN  IF S = {} THEN SubSeq(s, i, Len(s))
        ELSE LET k == MinOf(S)
             IN  SubSeq(s, i, k - 1) \o repls[k] \o Rewrite(s, ends, repls, ends[k] + 1)

Delete(s, ends) == Rewrite(s, ends, [i \in 1..Len(s) |-> <<>>], 1)

-----------------------------------------------------------------------------
(* The regular expressions of the source, one operator per pattern. *)

\* \[\[(?:[^|\]]*\|)?([^\]]+)\]\]  ->  \1
WikiLinkEnd(s, i) ==
    IF ~StartsAt(s, <<"[","[">>, i) THEN 0
    ELSE LET j == IndexOfChar(s, {"]"}, i + 2)
         IN  IF j = 0 \/ j = i + 2 \/ ~StartsAt(s, <<"]","]">>, j) THEN 0 ELSE j + 1

WikiLinkText(s, i) ==
    LET j == IndexOfChar(s, {"]"}, i + 2)
        inner == SubSeq(s, i + 2, j - 1)
        k == IndexOfChar(inner, {"|"}, 1)
    IN  IF k = 0 \/ k = Len(inner) THEN inner ELSE SubSeq(inner, k + 1, Len(inner))

SubWikiLink(s) ==
    Rewrite(s, [i \in 1..Len(s) |-> WikiLinkEnd(s, i)],
               [i \in 1..Len(s) |-> WikiLinkText(s, i)], 1)

\* <ref[^>]*>
RefOpenEnd(s, i) ==
    IF StartsAt(s, <<"<","r","e","f">>, i) THEN IndexOfChar(s, {">"}, i + 4) ELSE 0

\* <ref[^>]*/>
RefSelfEnd(s, i) ==
    LET j == RefOpenEnd(s, i)
    IN  IF j >= i + 5 /\ s[j-1] = "/" THEN j ELSE 0

\* <ref[^>]*>.*?</ref>   (DOTALL)
RefPairEnd(s, i) ==
    LET j == RefOpenEnd(s, i)
    IN  IF j = 0 THEN 0
        ELSE LET k == Find(s, <<"<","/","r","e","f",">">>, j + 1)
             IN  IF k = 0 THEN 0 ELSE k + 5

\* <!--.*?-->   (DOTALL)
CommentEnd(s, i) ==
    IF ~StartsAt(s, <<"<","!","-","-">>, i) THEN 0
    ELSE LET k == Find(s, <<"-","-",">">>, i + 4)
         IN  IF k = 0 THEN 0 ELSE k + 2

\* https?://[^\s]+
UrlEnd(s, i) ==
    IF ~StartsAt(s, <<"h","t","t","p">>, i) THEN 0
    ELSE LET b == IF StartsAt(s, <<"s",":","/","/">>, i + 4) THEN i + 8
                  ELSE IF StartsAt(s, <<":","/","/">>, i + 4) THEN i + 7 ELSE 0
         IN  IF b = 0 \/ b > Len(s) \/ s[b] \in WS THEN 0 ELSE RunEnd(s, b)

\* www\.[^\s]+
WwwEnd(s, i) ==
    IF ~StartsAt(s, <<"w","w","w",".">>, i) \/ i + 4 > Len(s) \/ s[i+4] \in WS THEN 0
    ELSE RunEnd(s, i + 4)

SubRefPair(s) == Delete(s, [i \in 1..Len(s) |-> RefPairEnd(s, i)])
SubRefSelf(s) == Delete(s, [i \in 1..Len(s) |-> RefSelfEnd(s, i)])
SubRefOpen(s) == Delete(s, [i \in 1..Len(s) |-> RefOpenEnd(s, i)])
SubComment(s) == Delete(s, [i \in 1..Len(s) |-> CommentEnd(s, i)])
SubUrl(s)     == Delete(s, [i \in 1..Len(s) |-> UrlEnd(s, i)])
SubWww(s)     == Delete(s, [i \in 1..Len(s) |-> WwwEnd(s, i)])

-----------------------------------------------------------------------------
(* normalize_genre *)

rock_variations ==
    { <<"r","o","c","k"," ","'","n","'"," ","r","o","l","l">>, <<"r","o","c","k"," ","n"," ","r","o","l","l">>, <<"r","o","c","k","'","n","'","r","o","l","l">>, <<"r","o","c","k"," ","&"," ","r","o","l","l">>, <<"r","o","c","k"," ","n","'"," ","r","o","l","l">> }

RockAndRoll == <<"r","o","c","k"," ","a","n","d"," ","r","o","l","l">>

normalize_genre(genre) ==
    LET g0 == Strip(Lower(genre))
        g1 == SubWikiLink(g0)
        g2 == RemoveChars(g1, {"[", "]"})
        g3 == SubRefOpen(SubRefSelf(SubRefPair(g2)))
        g4 == SubComment(g3)
        g5 == SubWww(SubUrl(g4))
        g6 == RemoveChars(g5, {"{", "}", "\"", "'", Backtick})
        g7 == IF g6 \in rock_variations THEN RockAndRoll ELSE g6
    IN  Strip(JoinSplit(g7))

-----------------------------------------------------------------------------
(* parse_genre_field *)

\* ^\{\{[^|]*\|?  ->  ''
StripTemplateHead(s) ==
    IF ~StartsAt(s, <<"{","{">>, 1) THEN s
    ELSE LET k == IndexOfChar(s, {"|"}, 3)
         IN  IF k = 0 THEN <<>> ELSE SubSeq(s, k + 1, Len(s))

\* \}\}$  ->  ''   ($ also matches just before a final newline)
StripTemplateTail(s) ==
    LET n == Len(s)
    IN  IF StartsAt(s, <<"}","}">>, n - 1) THEN SubSeq(s, 1, n - 2)
        ELSE IF StartsAt(s, <<"}","}","\n">>, n - 2) THEN Append(SubSeq(s, 1, n - 3), "\n")
        ELSE s

\* \{\{nowrap\|([^}]+)\}\}  ->  \1   (IGNORECASE)
NowrapEnd(s, ls, i) ==
    IF ~StartsAt(ls, <<"{","{","n","o","w","r","a","p","|">>, i) THEN 0
    ELSE LET j == IndexOfChar(s, {"}"}, i + 9)
         IN  IF j = 0 \/ j = i + 9 \/ ~StartsAt(s, <<"}","}">>, j) THEN 0 ELSE j + 1

SubNowrap(s) ==
    LET ls == Lower(s)
    IN  Rewrite(s, [i \in 1..Len(s) |-> NowrapEnd(s, ls, i)],
                   [i \in 1..Len(s) |-> SubSeq(s, i + 9, IndexOfChar(s, {"}"}, i + 9) - 1)], 1)

ListTemplateNames ==
    { <<"f","l","a","t","l","i","s","t">>, <<"h","l","i","s","t">>, <<"f","l","a","t"," ","l","i","s","t">>, <<"u","n","b","u","l","l","e","t","e","d"," ","l","i","s","t">>, <<"p","l","a","i","n","l","i","s","t">> }

\* re.search(r'\{\{(flatlist|hlist|flat list|unbulleted list|plainlist)', IGNORECASE).start(),
\* 1-based, 0 when there is no match
ListTemplateStart(s) ==
    LET ls == Lower(s)
        S == {k \in 1..Len(s) : \E nm \in ListTemplateNames : StartsAt(ls, <<"{","{">> \o nm, k)}
    IN  IF S = {} THEN 0 ELSE MinOf(S)

\* The depth-counting loop from index i on: the 1-based index of the close character
\* that brings depth back to zero, 0 when the loop ends without a break.  Characters
\* other than the two delimiters leave depth alone, so the scan steps from delimiter
\* to delimiter.
RECURSIVE ScanBraces(_, _, _, _, _)
ScanBraces(t, i, depth, open, close) ==
    LET k == IndexOfChar(t, {open, close}, i)
    IN  IF k = 0 THEN 0
        ELSE IF t[k] = open THEN ScanBraces(t, k + 1, depth + 1, open, close)
        ELSE IF depth - 1 = 0 THEN k
        ELSE ScanBraces(t, k + 1, depth - 1, open, close)

QualifierWords == { <<"e","a","r","l","y">>, <<"l","a","t","e","r">>, <<"l","a","t","e">>, <<"m","i","d">> }

\* re.search(r'\(.*(?:early|later|late|mid).*\)', item, IGNORECASE): '.' stops at a newline
HasQualifierParen(s) ==
    LET ls == Lower(s)
    IN  \E a \in 1..Len(s) : \E c \in a+1..Len(s) :
            /\ s[a] = "(" /\ s[c] = ")"
            /\ \A k \in a+1..c-1 : s[k] # "\n"
            /\ \E w \in QualifierWords : \E b \in a+1..c-Len(w) : StartsAt(ls, w, b)

\* \([^)]*\)  ->  ''
ParenEnd(s, i) == IF s[i] = "(" THEN IndexOfChar(s, {")"}, i + 1) ELSE 0

SubParen(s) == Delete(s, [i \in 1..Len(s) |-> ParenEnd(s, i)])

\* one item of a list template (the body of the for loop over items); <<>> when the
\* item is skipped, <<item>> when it is appended
ListItem(it) ==
    LET item == Strip(it)
        linked == SubNowrap(SubWikiLink(item))
        noparen == IF "(" \in {linked[k] : k \in 1..Len(linked)}
                   THEN IF HasQualifierParen(linked) THEN linked ELSE SubParen(linked)
                   ELSE linked
        final == Strip(noparen)
    IN  IF item = <<>> THEN <<>>
        ELSE IF final # <<>> /\ ~StartsAt(final, <<"<","!","-","-">>, 1) THEN <<final>> ELSE <<>>

RECURSIVE FlatMap(_, _, _)
FlatMap(Op(_), seq, i) ==
    IF i > Len(seq) THEN <<>> ELSE Op(seq[i]) \o FlatMap(Op, seq, i + 1)

\* template_text[:end_pos] for the list template that starts at template_start;
\* None when end_pos stays 0 and the block under `if end_pos > 0` is skipped
ListTemplateSpan(genre_text, template_start) ==
    LET template_text == SubSeq(genre_text, template_start, Len(genre_text))
        end_pos == ScanBraces(template_text, 1, 0, "{", "}")
    IN  IF end_pos > 0 THEN SubSeq(template_text, 1, end_pos) ELSE None

\* the labels appended from the list template that starts at template_start
ListTemplateLabels(genre_text, template_start) ==
    LET span == ListTemplateSpan(genre_text, template_start)
        template_content == StripTemplateTail(StripTemplateHead(span))
        items == IF "*" \in {template_content[k] : k \in 1..Len(template_content)}
                 THEN SplitAt(template_content, {"*"}, TRUE, 1)
                 ELSE SplitAt(template_content, {"|"}, FALSE, 1)
    IN  IF span # None THEN FlatMap(ListItem, items, 1) ELSE <<>>

\* <br\s*/?>  ->  ','   (IGNORECASE)
BrEnd(s, ls, i) ==
    IF ~StartsAt(ls, <<"<","b","r">>, i) THEN 0
    ELSE LET S == {k \in i+3..Len(s) : s[k] \notin WS}
             p == IF S = {} THEN 0 ELSE MinOf(S)
         IN  IF p = 0 THEN 0
             ELSE IF s[p] = ">" THEN p
             ELSE IF s[p] = "/" /\ StartsAt(s, <<">">>, p + 1) THEN p + 1
             ELSE 0

SubBr(s) ==
    LET ls == Lower(s)
    IN  Rewrite(s, [i \in 1..Len(s) |-> BrEnd(s, ls, i)], [i \in 1..Len(s) |-> <<",">>], 1)

Delimiters == {",", ";", "/", "\n", Bullet, MidDot, "|"}

\* one piece of the plain format (the body of the for loop over raw_genres)
PlainPiece(piece) ==
    LET stripped == Strip(piece)
        genre == IF Contains(stripped, <<"[","[">>) THEN SubWikiLink(stripped) ELSE stripped
    IN  IF genre = <<>> \/ StartsAt(genre, <<"{","{">>, 1) \/ StartsAt(genre, <<"<","!","-","-">>, 1)
           \/ StartsAt(genre, <<"<","r","e","f">>, 1)
        THEN <<>> ELSE <<genre>>

PlainLabels(genre_text) ==
    FlatMap(PlainPiece, SplitAt(SubBr(genre_text), Delimiters, FALSE, 1), 1)

\* genre_text as it stands when the list-template test is made
CleanField(genre_text) ==
    SubNowrap(StripTemplateTail(StripTemplateHead(
        SubRefSelf(SubRefPair(SubComment(genre_text))))))

\* the list `genres` when the normalisation loop starts
RawGenres(genre_text) ==
    LET text == CleanField(genre_text)
        template_start == ListTemplateStart(text)
    IN  IF template_start # 0 THEN ListTemplateLabels(text, template_start)
        ELSE PlainLabels(text)

skip_terms ==
    { <<"m","u","s","i","c">>, <<"b","a","n","d">>, <<"g","r","o","u","p">>, <<>>, <<"c","i","t","e"," ","w","e","b">>, <<"c","i","t","e"," ","b","o","o","k">>,
      <<"f","i","r","s","t">>, <<"l","a","s","t">>, <<"u","r","l">>, <<"t","i","t","l","e">>, <<"r","e","f">>, <<"n","a","m","e">>, <<"a","m">>,
      <<"a","l","l","m","u","s","i","c">>, <<"w","w","w">>, <<"c","o","m">>, <<"h","t","t","p">>, <<"h","t","t","p","s">>, <<"r","e","f"," ","n","a","m","e">>,
      <<"w","o","r","k">>, <<"d","a","t","e">>, <<"p","u","b","l","i","s","h","e","r">>, <<"w","e","b","s","i","t","e">>, <<"a","c","c","e","s","s","-","d","a","t","e">>,
      <<"a","r","c","h","i","v","e","-","d","a","t","e">>, <<"a","r","c","h","i","v","e","-","u","r","l">>, <<"p","a","g","e">>, <<"i","s","b","n">>, <<"y","e","a","r">>,
      <<"c","i","t","a","t","i","o","n">>, <<"u","r","l","-","s","t","a","t","u","s">>, <<"l","i","v","e">>, <<"r","o","c","k"," ","m","u","s","i","c">>, <<"r","o","c","k">> }

InSeq(x, seq) == \E k \in 1..Len(seq) : seq[k] = x

\* Variant of IsGenre that forgets the skip_terms test: C4_CanonicalGenres fails under it.
IsGenreAnyTerm(normalized) ==
    /\ normalized # <<>> /\ Len(normalized) > 1
    /\ ~Contains(normalized, <<"r","e","f">>) /\ ~Contains(normalized, <<"c","i","t","e">>)
    /\ ~Contains(normalized, <<".">>)

\* the test that guards normalized_genres.append(normalized)
IsGenre(normalized) ==
    /\ normalized # <<>> /\ Len(normalized) > 1 /\ normalized \notin skip_terms
    /\ ~Contains(normalized, <<"r","e","f">>) /\ ~Contains(normalized, <<"c","i","t","e">>)
    /\ ~Contains(normalized, <<".">>)

\* genre.replace('*', '').strip(), then normalize_genre
NormalizeLabel(genre) == normalize_genre(Strip(RemoveChars(genre, {"*"})))

\* the for loop that fills normalized_genres
RECURSIVE NormalizeAll(_, _, _)
NormalizeAll(gs, i, normalized_genres) ==
    IF i > Len(gs) THEN normalized_genres
    ELSE LET normalized == NormalizeLabel(gs[i])
         IN  IF IsGenre(normalized) /\ ~InSeq(normalized, normalized_genres)
             THEN NormalizeAll(gs, i + 1, Append(normalized_genres, normalized))
             ELSE NormalizeAll(gs, i + 1, normalized_genres)

parse_genre_field(genre_text) == NormalizeAll(RawGenres(genre_text), 1, <<>>)

-----------------------------------------------------------------------------
(* extract_nested_content *)

extract_nested_content(text, open_char, close_char) ==
    LET start_idx == IndexOfChar(text, {open_char}, 1)
        e == ScanBraces(text, start_idx, 0, open_char, close_char)
    IN  IF start_idx = 0 THEN text
        ELSE IF e # 0 THEN SubSeq(text, start_idx, e) ELSE text

-----------------------------------------------------------------------------
(* extract_genres_from_infobox *)

\* re.search(r'\{\{Infobox[^{]*', DOTALL | IGNORECASE).start(), 1-based, 0: no match
InfoboxStart(text) == Find(Lower(text), <<"{","{","i","n","f","o","b","o","x">>, 1)

\* text_from_start[:infobox_end]
InfoboxText(text) ==
    LET text_from_start == SubSeq(text, InfoboxStart(text), Len(text))
        e == ScanBraces(text_from_start, 1, 0, "{", "}")
        infobox_end == IF e = 0 THEN Len(text_from_start) ELSE e
    IN  SubSeq(text_from_start, 1, infobox_end)

\* ^\s*\|\s*genres?\s*=\s*   (IGNORECASE): the index of the first character after the
\* match, 0 when the line does not match \s*\|\s*genres?\s*=
GenreValueStart(line) ==
    LET ls == Lower(line)
        p == SkipWS(line, 1)
        q == SkipWS(line, p + 1)
        r == IF StartsAt(ls, <<"s">>, q + 5) THEN q + 6 ELSE q + 5
        t == SkipWS(line, r)
    IN  IF StartsAt(line, <<"|">>, p) /\ StartsAt(ls, <<"g","e","n","r","e">>, q) /\ StartsAt(line, <<"=">>, t)
        THEN SkipWS(line, t + 1) ELSE 0

\* The for loop over the infobox lines; returns genre_content when the loop ends
\* (at the last line or at the break).
RECURSIVE ScanLines(_, _, _, _, _)
ScanLines(lines, i, genre_content, in_genre_field, bracket_depth) ==
    IF i > Len(lines) THEN genre_content
    ELSE LET line == lines[i]
             v == GenreValueStart(line)
             genre_line == SubSeq(line, v, Len(line))
         IN  IF v # 0
             THEN ScanLines(lines, i + 1, Append(genre_content, genre_line), TRUE,
                            Count(genre_line, "{") - Count(genre_line, "}"))
             ELSE IF in_genre_field
             THEN IF StartsAt(Strip(line), <<"|">>, 1) /\ bracket_depth = 0
                  THEN genre_content
                  ELSE ScanLines(lines, i + 1, Append(genre_content, line), TRUE,
                                 bracket_depth + Count(line, "{") - Count(line, "}"))
             ELSE ScanLines(lines, i + 1, genre_content, FALSE, bracket_depth)

\* genre_content of the document (a list of lines), <<>> when there is no infobox
GenreContent(text) ==
    IF InfoboxStart(text) = 0 THEN <<>>
    ELSE ScanLines(SplitAt(InfoboxText(text), {"\n"}, FALSE, 1), 1, <<>>, FALSE, 0)

\* genre_text handed to parse_genre_field, None when the function returns before
GenreText(text) ==
    LET genre_content == GenreContent(text)
    IN  IF genre_content = <<>> THEN None ELSE Join(genre_content, <<"\n">>, 1)

extract_genres_from_infobox(text) ==
    LET genre_text == GenreText(text)
        gs == parse_genre_field(genre_text)
    IN  IF genre_text = None THEN NoneList
        ELSE IF gs # <<>> THEN gs ELSE NoneList

-----------------------------------------------------------------------------
(* extract_artist_name_from_filename *)

\* os.path.splitext(filename)[0]
SplitExtRoot(filename) ==
    LET seps == {k \in 1..Len(filename) : filename[k] = "/"}
        sep == IF seps = {} THEN 0 ELSE MaxOf(seps)
        dots == {k \in sep+1..Len(filename) : filename[k] = "."}
        dot == IF dots = {} THEN 0 ELSE MaxOf(dots)
    IN  IF dot # 0 /\ \E k \in sep+1..dot-1 : filename[k] # "."
        THEN SubSeq(filename, 1, dot - 1) ELSE filename

\* \s*\([^)]*\)\s*$  ->  ''
StripParenSuffix(name) ==
    LET S == {p \in 1..Len(name) :
                LET o == SkipWS(name, p)
                    c == IndexOfChar(name, {")"}, o + 1)
                IN  /\ StartsAt(name, <<"(">>, o)
                    /\ c # 0
                    /\ SkipWS(name, c + 1) = Len(name) + 1}
    IN  IF S = {} THEN name ELSE SubSeq(name, 1, MinOf(S) - 1)

\* Variant that keeps the underscores: C1_FlatlistEndToEnd fails under it.
NameKeepingUnderscores(filename) ==
    Strip(StripParenSuffix(SplitExtRoot(filename)))

extract_artist_name_from_filename(filename) ==
    Strip(StripParenSuffix(ReplaceChar(SplitExtRoot(filename), "_", " ")))

-----------------------------------------------------------------------------
(* Inputs.  Sequences of at most n elements of S, and the texts built from them. *)

SeqsUpTo(S, n) == UNION {[1..k -> S] : k \in 1..n}

RECURSIVE ConcatAll(_, _)
ConcatAll(parts, i) == IF i > Len(parts) THEN <<>> ELSE parts[i] \o ConcatAll(parts, i + 1)

MaxFrags == 2
MaxPieces == 2
MaxItems == 2

\* Raw labels: the rock-and-roll spellings in three letter cases with zero, one or
\* two blanks around the middle word, and every string of at most MaxFrags fragments
\* of markup.
RockWords ==
    { <<<<"r","o","c","k">>, <<"r","o","l","l">>>>, <<<<"R","o","c","k">>, <<"R","o","l","l">>>>, <<<<"R","O","C","K">>, <<"R","O","L","L">>>> }
RockMiddles == { <<"'","n","'">>, <<"n">>, <<"&">>, <<"n","'">>, <<"'","N","'">>, <<"N">> }
Blanks == { <<>>, <<" ">>, <<" "," ">> }

RockSpellings ==
    { w[1] \o a \o m \o b \o w[2] : w \in RockWords, m \in RockMiddles, a \in Blanks, b \in Blanks }

Fragments ==
    { <<"s","k","a">>, <<"P","o","p">>, <<"[","[">>, <<"]","]">>, <<"|">>, <<"<","r","e","f",">">>, <<"<","/","r","e","f",">">>, <<"<","r","e">>, <<"f",">">>,
      <<"'">>, <<"\"">>, <<"{">>, <<" "," ">>, <<"<","!","-","-">>, <<"-","-",">">> }

RawLabels == RockSpellings \cup {ConcatAll(fs, 1) : fs \in SeqsUpTo(Fragments, MaxFrags)}

\* Field texts: at most MaxPieces labels, written as plain comma-separated text, as a
\* list template that opens the field, as a list template after some words, and as
\* a list template that is never closed.
Pieces ==
    { <<"[","[","P","o","p"," ","m","u","s","i","c","|","P","o","p","]","]">>, <<"[","[","S","k","a","]","]">>, <<"I","n","d","i","e"," ","r","o","c","k">>, <<"\"","I","n","d","i","e"," ","R","o","c","k","\"">>, <<"R","o","c","k">>,
      <<"I","S","B","N">>, <<"C","i","t","e"," ","w","e","b">>, <<"P","u","n","k"," ","r","o","c","k"," ","(","1","9","7","7",")">>, <<"S","k","a"," ","(","e","a","r","l","y"," ","1","9","8","0","s",")">>, <<"R",".","E",".","M",".">>,
      <<"{","{","n","o","w","r","a","p","|","H","a","r","d"," ","r","o","c","k","}","}">>, <<"r","o","c","k"," ","'","n","'"," ","r","o","l","l">> }

Bullets(ps) == ConcatAll([k \in 1..Len(ps) |-> <<"*"," ">> \o ps[k] \o <<"\n">>], 1)

PlainField(ps) == Join(ps, <<","," ">>, 1)
FlatlistField(ps) == <<"{","{","f","l","a","t","l","i","s","t","|","\n">> \o Bullets(ps) \o <<"}","}">>
InnerFlatlistField(ps) == <<"s","e","e"," ","{","{","f","l","a","t","l","i","s","t","|","\n">> \o Bullets(ps) \o <<"}","}"," ","a","l","s","o">>
InnerHlistField(ps) == <<"s","e","e"," ","{","{","h","l","i","s","t","|">> \o Join(ps, <<"|">>, 1) \o <<"}","}"," ","a","l","s","o">>
UnclosedFlatlistField(ps) == <<"s","e","e"," ","{","{","f","l","a","t","l","i","s","t","|","\n">> \o Bullets(ps)

PieceSeqs == SeqsUpTo(Pieces, MaxPieces)

FieldTexts ==
    UNION { {PlainField(ps), FlatlistField(ps), InnerFlatlistField(ps),
             InnerHlistField(ps), UnclosedFlatlistField(ps)} : ps \in PieceSeqs }

\* Documents: an infobox whose genre field is a flatlist of at most MaxItems items,
\* and one document for each other shape of page the loop meets.
Items == { <<"[","[","P","u","n","k"," ","r","o","c","k","]","]">>, <<"R","o","c","k"," ","a","n","d"," ","r","o","l","l">> }
ItemSeqs == SeqsUpTo(Items, MaxItems)

InfoboxDoc(field) ==
    <<"{","{","I","n","f","o","b","o","x"," ","m","u","s","i","c","a","l"," ","a","r","t","i","s","t","\n","|"," ","g","e","n","r","e"," ","="," ">> \o field \o <<"\n","|"," ","b","o","r","n"," ","="," ","1","9","7","0","\n","}","}">>

FlatlistDoc(items) == InfoboxDoc(FlatlistField(items))

NoInfoboxDoc == <<"T","h","e"," ","C","l","a","s","h"," ","w","e","r","e"," ","a"," ","b","a","n","d",".">>
NoGenreDoc == <<"{","{","I","n","f","o","b","o","x"," ","m","u","s","i","c","a","l"," ","a","r","t","i","s","t","\n","|"," ","b","o","r","n"," ","="," ","1","9","7","0","\n","}","}">>
FilteredDoc == InfoboxDoc(<<"R","o","c","k">>)
EmptyListDoc == InfoboxDoc(<<"{","{","f","l","a","t","l","i","s","t","|","\n","}","}">>)
TwoGenreLinesDoc == <<"{","{","I","n","f","o","b","o","x"," ","m","u","s","i","c","a","l"," ","a","r","t","i","s","t","\n","|"," ","g","e","n","r","e"," ","="," ","S","k","a","\n","|"," ","g","e","n","r","e","s"," ","="," ","P","u","n","k"," ","r","o","c","k","\n","|"," ","b","o","r","n"," ","="," ","1","9","7","0","\n","}","}">>
NestedPipeDoc == <<"{","{","I","n","f","o","b","o","x"," ","m","u","s","i","c","a","l"," ","a","r","t","i","s","t","\n","|"," ","g","e","n","r","e"," ","="," ","{","{","h","l","i","s","t","\n","|"," ","S","k","a","\n","|"," ","P","u","n","k"," ","r","o","c","k","\n","}","}","\n","|"," ","b","o","r","n"," ","="," ","1","9","7","0","\n","}","}">>
LastFieldDoc == <<"{","{","I","n","f","o","b","o","x"," ","m","u","s","i","c","a","l"," ","a","r","t","i","s","t","\n","|"," ","b","o","r","n"," ","="," ","1","9","7","0","\n","|","g","e","n","r","e","s","=","S","k","a">>

Contents ==
    {NoInfoboxDoc, NoGenreDoc, FilteredDoc, EmptyListDoc, TwoGenreLinesDoc, NestedPipeDoc,
     LastFieldDoc} \cup {FlatlistDoc(items) : items \in ItemSeqs}

FileNames == { <<"T","h","e","_","C","l","a","s","h",".","t","x","t">>, <<"T","h","e","_","C","l","a","s","h","_","(","b","a","n","d",")",".","t","x","t">>, <<"G","e","n","e","s","i","s",".","t","x","t">> }

\* build_artist_network is not running
NetworkIdle ==
    /\ artist_list = <<>> /\ wiki_data = <<>> /\ gpc = "idle" /\ source_artist = None
    /\ nodes = {} /\ edges = {} /\ word_count = <<>> /\ links_found = <<>>

-----------------------------------------------------------------------------
(* normalize_genre applied to a raw label, and again to its result *)

InitNormalize ==
    /\ raw \in RawLabels
    /\ once = None /\ twice = None /\ npc = "start"
    /\ field_text = <<>> /\ template_span = None /\ raw_genres = NoneList
    /\ parsed = NoneList /\ ppc = "idle"
    /\ found = 0 /\ txt_files = {} /\ file_name = None /\ content = None
    /\ artist_name = None /\ genre_field = None /\ genres = NoneList
    /\ artist_genres = <<>> /\ success_count = 0 /\ failure_count = 0
    /\ NetworkIdle

Normalize ==
    /\ npc = "start"
    /\ once' = normalize_genre(raw)
    /\ npc' = "once"
    /\ UNCHANGED <<raw, twice, pvars, bvars, gvars>>

NormalizeAgain ==
    /\ npc = "once"
    /\ twice' = normalize_genre(once)
    /\ npc' = "twice"
    /\ UNCHANGED <<raw, once, pvars, bvars, gvars>>

NextNormalize == Normalize \/ NormalizeAgain

SpecNormalize == InitNormalize /\ [][NextNormalize]_vars

-----------------------------------------------------------------------------
(* parse_genre_field applied to a field text *)

InitParse ==
    /\ field_text \in FieldTexts
    /\ template_span = None /\ raw_genres = NoneList /\ parsed = NoneList /\ ppc = "start"
    /\ raw = <<>> /\ once = None /\ twice = None /\ npc = "idle"
    /\ found = 0 /\ txt_files = {} /\ file_name = None /\ content = None
    /\ artist_name = None /\ genre_field = None /\ genres = NoneList
    /\ artist_genres = <<>> /\ success_count = 0 /\ failure_count = 0
    /\ NetworkIdle

\* Cleaning the field and collecting the labels (the if/else on the list template)
ParseLabels ==
    /\ ppc = "start"
    /\ LET text == CleanField(field_text)
           template_start == ListTemplateStart(text)
       IN  /\ template_span' = IF template_start # 0
                               THEN ListTemplateSpan(text, template_start) ELSE None
           /\ raw_genres' = RawGenres(field_text)
    /\ ppc' = "labels"
    /\ UNCHANGED <<field_text, parsed, nvars, bvars, gvars>>

\* The normalisation loop and the return
ParseNormalize ==
    /\ ppc = "labels"
    /\ parsed' = parse_genre_field(field_text)
    /\ ppc' = "done"
    /\ UNCHANGED <<field_text, template_span, raw_genres, nvars, bvars, gvars>>

NextParse == ParseLabels \/ ParseNormalize

SpecParse == InitParse /\ [][NextParse]_vars

-----------------------------------------------------------------------------
(* process_wiki_files *)

\* `if genres:` is false for None and for an empty list
Truthy(gs) == gs # NoneList /\ gs # <<>>

\* Variant that stores an entry for every file, an empty list when no genre was
\* found: C2_NoEmptyEntry fails under it.
StoreGenresAlways(ag, name, gs) ==
    [k \in DOMAIN ag \cup {name} |->
        IF k = name THEN (IF Truthy(gs) THEN gs ELSE <<>>) ELSE ag[k]]

\* artist_genres[artist_name] = genres, under `if genres:`
StoreGenres(ag, name, gs) ==
    IF Truthy(gs) THEN [k \in DOMAIN ag \cup {name} |-> IF k = name THEN gs ELSE ag[k]]
    ELSE ag

Init ==
    /\ txt_files \in SUBSET FileNames
    /\ found = Cardinality(txt_files)
    /\ file_name = None /\ content = None /\ artist_name = None
    /\ genre_field = None /\ genres = NoneList
    /\ artist_genres = <<>> /\ success_count = 0 /\ failure_count = 0
    /\ NetworkIdle
    /\ raw = <<>> /\ once = None /\ twice = None /\ npc = "idle"
    /\ field_text = <<>> /\ template_span = None /\ raw_genres = NoneList
    /\ parsed = NoneList /\ ppc = "idle"

\* One iteration of the for loop whose try block completes: the file is read, the
\* name and the genres are extracted, and the mapping and one counter are updated.
\* glob() fixes no order, so any remaining file may be the next one.
ProcessFile(f, c) ==
    /\ f \in txt_files
    /\ txt_files' = txt_files \ {f}
    /\ file_name' = f
    /\ content' = c
    /\ artist_name' = extract_artist_name_from_filename(f)
    /\ genre_field' = GenreText(c)
    /\ genres' = extract_genres_from_infobox(c)
    /\ artist_genres' = StoreGenres(artist_genres, artist_name', genres')
    /\ success_count' = IF Truthy(genres') THEN success_count + 1 ELSE success_count
    /\ failure_count' = IF Truthy(genres') THEN failure_count ELSE failure_count + 1
    /\ UNCHANGED <<found, nvars, pvars, gvars>>

\* One iteration whose open() or read() raises: the except clause counts a failure.
\* The locals the iteration did not assign are shown as None.
ProcessError(f) ==
    /\ f \in txt_files
    /\ txt_files' = txt_files \ {f}
    /\ file_name' = f
    /\ content' = None /\ artist_name' = None /\ genre_field' = None /\ genres' = NoneList
    /\ failure_count' = failure_count + 1
    /\ UNCHANGED <<found, artist_genres, success_count, nvars, pvars, gvars>>

Next ==
    \/ \E f \in FileNames, c \in Contents : ProcessFile(f, c)
    \/ \E f \in FileNames : ProcessError(f)

Spec == Init /\ [][Next]_vars


-----------------------------------------------------------------------------
(* rock_network.py: extract_wiki_links and build_artist_network.  The three *)
(* characters of the string replaced at line 58 are named atoms: ACirc      *)
(* (U+00E2), Euro (U+20AC) and LeftQuote (U+201C).                          *)

ACirc == "acirc"
Euro == "euro"
LeftQuote == "leftquote"

\* s.replace(p, r) for a non-empty p
ReplaceSub(s, p, r) ==
    Rewrite(s, [i \in 1..Len(s) |-> IF StartsAt(s, p, i) THEN i + Len(p) - 1 ELSE 0],
            [i \in 1..Len(s) |-> r], 1)

\* \[\[([^\[\]|]+?)(?:\|[^\[\]]+)?\]\]: the index at which group 1 of a match that
\* starts at i ends (the lazy group runs to the first of [ ] |), 0 when there is none
LinkTargetEnd(s, i) ==
    IF ~StartsAt(s, <<"[","[">>, i) THEN 0
    ELSE LET j == IndexOfChar(s, {"[", "]", "|"}, i + 2)
         IN  IF j = 0 \/ j = i + 2 THEN 0 ELSE j - 1

\* the last index of the match that starts at i, 0 when there is no match at i
LinkEnd(s, i) ==
    LET j == LinkTargetEnd(s, i) + 1
        k == IndexOfChar(s, {"[", "]"}, j + 1)
    IN  IF j = 1 THEN 0
        ELSE IF StartsAt(s, <<"]","]">>, j) THEN j + 1
        ELSE IF s[j] = "|" /\ k > j + 1 /\ StartsAt(s, <<"]","]">>, k) THEN k + 1
        ELSE 0

\* re.findall(pattern, text): group 1 of the non-overlapping matches, from index i on
RECURSIVE FindAllLinks(_, _)
FindAllLinks(text, i) ==
    LET S == {k \in i..Len(text) : LinkEnd(text, k) # 0}
    IN  IF S = {} THEN <<>>
        ELSE LET k == MinOf(S)
             IN  <<SubSeq(text, k + 2, LinkTargetEnd(text, k))>>
                 \o FindAllLinks(text, LinkEnd(text, k) + 1)

\* match.split('#')[0].strip()
LinkName(match) == Strip(SplitAt(match, {"#"}, FALSE, 1)[1])

extract_wiki_links(text) ==
    LET matches == FindAllLinks(text, 1)
        links == [k \in 1..Len(matches) |-> LinkName(matches[k])]
    IN  SelectSeq(links, LAMBDA link : link # <<>>)

\* d[k] = v on a dict
Put(d, k, v) == [x \in DOMAIN d \cup {k} |-> IF x = k THEN v ELSE d[x]]

\* the elements of a list, as a set
Range(seq) == {seq[k] : k \in 1..Len(seq)}

artist_set(al) == Range(al)

Sanitized(artist) == ReplaceSub(ReplaceChar(artist, "/", "_"), <<ACirc, Euro, LeftQuote>>, <<"-">>)

\* the dict artist_variations after the artists al[i], al[i+1], ... are stored into d
RECURSIVE artist_variations(_, _, _)
artist_variations(al, i, d) ==
    IF i > Len(al) THEN d
    ELSE LET artist == al[i]
             d1 == Put(d, artist, artist)
             d2 == Put(d1, ReplaceChar(artist, " ", "_"), artist)
             d3 == Put(d2, Sanitized(artist), artist)
             d4 == Put(d3, ReplaceChar(Sanitized(artist), " ", "_"), artist)
         IN  artist_variations(al, i + 1, d4)

\* the artist a file name is mapped back to, None when there is none
SourceArtist(filename, variations) ==
    IF filename \in DOMAIN variations THEN variations[filename]
    ELSE IF ReplaceChar(filename, "_", " ") \in DOMAIN variations
         THEN variations[ReplaceChar(filename, "_", " ")]
    ELSE None

\* `not source_artist`
NoArtist(sa) == sa = None \/ sa = <<>>

\* the list artist_links built from all_links[i], all_links[i+1], ...
RECURSIVE ArtistLinks(_, _, _)
ArtistLinks(all_links, i, as) ==
    IF i > Len(all_links) THEN <<>>
    ELSE LET link == all_links[i]
             target == ReplaceChar(link, "_", " ")
         IN  (IF link \in as THEN <<link>>
              ELSE IF target \in as THEN <<target>>
              ELSE <<>>) \o ArtistLinks(all_links, i + 1, as)

\* len(content.split())
WordCount(text) == Len(SelectSeq(SplitAt(text, WS, TRUE, 1), LAMBDA w : w # <<>>))

MaxArtists == 2
MaxPages == 2

Artists == {<<"T","h","e"," ","C","l","a","s","h">>, <<"A","C","/","D","C">>, <<"R","a","m","o","n","e","s">>}
PageNames == {<<"T","h","e","_","C","l","a","s","h">>, <<"A","C","_","D","C">>, <<"U","n","k","n","o","w","n","_","B","a","n","d">>}
PageTexts ==
    {<<"T","h","e"," ","[","[","R","a","m","o","n","e","s","]","]"," ","c","a","m","e"," ","f","i","r","s","t",".">>,
     <<"S","e","e"," ","[","[","T","h","e","_","C","l","a","s","h","#","H","i","s","t","o","r","y","|","t","h","e"," ","b","a","n","d","]","]"," ","a","n","d"," ","[","[","A","C","/","D","C","]","]",".">>,
     <<"T","h","e"," ","[","[","T","h","e"," ","C","l","a","s","h","|","C","l","a","s","h","]","]"," ","m","e","t"," ","t","h","e"," ","[","[","S","e","x"," ","P","i","s","t","o","l","s","]","]",".">>,
     <<"n","o"," ","l","i","n","k","s"," ","h","e","r","e">>}

\* the items of a dict: no file name occurs twice
PageLists ==
    {ps \in SeqsUpTo(PageNames \X PageTexts, MaxPages) :
        \A i, j \in 1..Len(ps) : i # j => ps[i][1] # ps[j][1]}

InitNetwork ==
    /\ artist_list \in SeqsUpTo(Artists, MaxArtists)
    /\ wiki_data \in PageLists
    /\ gpc = "start" /\ source_artist = None
    /\ nodes = {} /\ edges = {} /\ word_count = <<>> /\ links_found = <<>>
    /\ raw = <<>> /\ once = None /\ twice = None /\ npc = "idle"
    /\ field_text = <<>> /\ template_span = None /\ raw_genres = NoneList
    /\ parsed = NoneList /\ ppc = "idle"
    /\ found = 0 /\ txt_files = {} /\ file_name = None /\ content = None
    /\ artist_name = None /\ genre_field = None /\ genres = NoneList
    /\ artist_genres = <<>> /\ success_count = 0 /\ failure_count = 0

\* G = nx.DiGraph() and G.add_node for every artist
AddNodes ==
    /\ gpc = "start"
    /\ nodes' = artist_set(artist_list)
    /\ gpc' = "pages"
    /\ UNCHANGED <<artist_list, wiki_data, source_artist, edges, word_count, links_found,
                   nvars, pvars, bvars>>

\* One iteration of the loop over wiki_data.items() for a page that maps back to an
\* artist.  add_edge adds its endpoints to the nodes and keeps one edge per pair.
ProcessPage ==
    /\ gpc = "pages" /\ wiki_data # <<>>
    /\ LET filename == Head(wiki_data)[1]
           page == Head(wiki_data)[2]
           sa == SourceArtist(filename, artist_variations(artist_list, 1, <<>>))
           artist_links == ArtistLinks(extract_wiki_links(page), 1, artist_set(artist_list))
       IN  /\ ~NoArtist(sa)
           /\ sa \in nodes \cup Range(artist_links)
           /\ source_artist' = sa
           /\ edges' = edges \cup {<<sa, t>> : t \in Range(artist_links)}
           /\ nodes' = nodes \cup (IF artist_links = <<>> THEN {} ELSE {sa} \cup Range(artist_links))
           /\ links_found' = Put(links_found, sa, artist_links)
           /\ word_count' = Put(word_count, sa, WordCount(page))
    /\ wiki_data' = Tail(wiki_data)
    /\ UNCHANGED <<artist_list, gpc, nvars, pvars, bvars>>

\* One iteration for a page that maps to no artist: the warning and `continue`
SkipPage ==
    /\ gpc = "pages" /\ wiki_data # <<>>
    /\ LET sa == SourceArtist(Head(wiki_data)[1], artist_variations(artist_list, 1, <<>>))
       IN  /\ NoArtist(sa)
           /\ source_artist' = sa
    /\ wiki_data' = Tail(wiki_data)
    /\ UNCHANGED <<artist_list, gpc, nodes, edges, word_count, links_found, nvars, pvars, bvars>>

NextNetwork == AddNodes \/ ProcessPage \/ SkipPage

SpecNetwork == InitNetwork /\ [][NextNetwork]_vars
-----------------------------------------------------------------------------
(* Properties *)

PunkRockLink == <<"[","[","P","u","n","k"," ","r","o","c","k","]","]">>
RockAndRollItem == <<"R","o","c","k"," ","a","n","d"," ","r","o","l","l">>
ClashFile == <<"T","h","e","_","C","l","a","s","h",".","t","x","t">>
ClashKey == <<"T","h","e"," ","C","l","a","s","h">>

\* the label an item of Items stands for, lower-cased
ItemLabel(item) == IF item = PunkRockLink THEN <<"p","u","n","k"," ","r","o","c","k">> ELSE RockAndRoll

\* the labels of the items in the order of their first appearance
RECURSIVE FirstAppearances(_, _, _)
FirstAppearances(items, i, acc) ==
    IF i > Len(items) THEN acc
    ELSE FirstAppearances(items, i + 1,
            IF InSeq(ItemLabel(items[i]), acc) THEN acc ELSE Append(acc, ItemLabel(items[i])))

\* the key the file name stands for: extension removed, underscores as spaces,
\* trailing parenthetical dropped
ExpectedKey(f) == IF f = <<"G","e","n","e","s","i","s",".","t","x","t">> THEN <<"G","e","n","e","s","i","s">> ELSE ClashKey

\* the key when only the extension is removed and the underscores replaced
KeyWithoutSuffixRule(f) == ReplaceChar(SubSeq(f, 1, Len(f) - 4), "_", " ")

FlatlistResult(key(_)) ==
    \A items \in ItemSeqs :
        content = FlatlistDoc(items) =>
            /\ genres = FirstAppearances(items, 1, <<>>)
            /\ artist_name = key(file_name)
            /\ artist_name \in DOMAIN artist_genres
            /\ artist_genres[artist_name] = FirstAppearances(items, 1, <<>>)

\* C1 (as stated): when the file just processed holds an infobox whose genre field is
\* a flatlist of `* item` lines followed by another field, its genres are the
\* normalized labels in order of first appearance, stored under the file name with
\* the extension removed and the underscores replaced by spaces.
C1_KeyIsRenamedFile == FlatlistResult(KeyWithoutSuffixRule)

\* C1 (amended): the same, with the key being the file name with the extension
\* removed, the underscores replaced by spaces, and a trailing parenthetical suffix
\* and surrounding blanks removed.
C1_FlatlistEndToEnd == FlatlistResult(ExpectedKey)

C1_Witness ==
    /\ file_name = ClashFile
    /\ content = FlatlistDoc(<<PunkRockLink, RockAndRollItem>>)
    /\ ClashKey \in DOMAIN artist_genres
    /\ artist_genres[ClashKey] = <<<<"p","u","n","k"," ","r","o","c","k">>, RockAndRoll>>

NoGenreDocs == {NoInfoboxDoc, NoGenreDoc, FilteredDoc, EmptyListDoc}

\* C2: at every point of the loop every key of the mapping maps to a non-empty list,
\* and a step that reads a document with no infobox, with no genre field or with
\* only filtered labels leaves the mapping as it was (no key is added, no entry of
\* another document changes).
C2_NoEmptyEntry ==
    /\ [](\A k \in DOMAIN artist_genres : artist_genres[k] # <<>> /\ artist_genres[k] # NoneList)
    /\ [][content' \in NoGenreDocs /\ txt_files' # txt_files => artist_genres' = artist_genres]_vars

C2_Witness ==
    /\ content = FilteredDoc
    /\ DOMAIN artist_genres # {}
    /\ artist_name \notin DOMAIN artist_genres
    /\ failure_count = 1 /\ success_count = 1

\* C3: normalize_genre is idempotent: normalizing the result again changes nothing.
C3_Idempotent == npc = "twice" => twice = once

\* C4: every list parse_genre_field returns is canonical: each entry is longer than
\* one character, lower case, free of [ ] { } and quote characters, outside the
\* skip set, free of "ref", "cite" and periods, appears once, and the entries stand
\* in the order in which the raw labels first produce them.
FirstRaw(entry) ==
    LET S == {k \in 1..Len(raw_genres) : NormalizeLabel(raw_genres[k]) = entry}
    IN  IF S = {} THEN 0 ELSE MinOf(S)

C4_CanonicalGenres ==
    ppc = "done" =>
        /\ \A i \in 1..Len(parsed) :
            LET e == parsed[i]
            IN  /\ Len(e) > 1
                /\ Lower(e) = e
                /\ \A k \in 1..Len(e) : e[k] \notin {"[", "]", "{", "}", "\"", "'", Backtick}
                /\ e \notin skip_terms
                /\ ~Contains(e, <<"r","e","f">>) /\ ~Contains(e, <<"c","i","t","e">>) /\ ~Contains(e, <<".">>)
                /\ FirstRaw(e) # 0
        /\ \A i, j \in 1..Len(parsed) :
            i < j => parsed[i] # parsed[j] /\ FirstRaw(parsed[i]) < FirstRaw(parsed[j])

C4_Witness ==
    /\ ppc = "done"
    /\ field_text = PlainField(<<<<"\"","I","n","d","i","e"," ","R","o","c","k","\"">>, <<"R","o","c","k">>>>)
    /\ parsed = <<<<"i","n","d","i","e"," ","r","o","c","k">>>>

\* C5: the captured field text is the value of the first genre line followed by the
\* later lines up to, and without, the first one that begins with `|` while the
\* brace depth of what was captured is zero; lines that begin with `|` at a
\* non-zero depth are kept.
FieldByBoundaryRule(text) ==
    LET lines == SplitAt(InfoboxText(text), {"\n"}, FALSE, 1)
        G == {k \in 1..Len(lines) : GenreValueStart(lines[k]) # 0}
        g == MinOf(G)
        first == SubSeq(lines[g], GenreValueStart(lines[g]), Len(lines[g]))
        Captured(j) == Join(<<first>> \o SubSeq(lines, g + 1, j), <<"\n">>, 1)
        E == {j \in g+1..Len(lines) :
                /\ StartsAt(Strip(lines[j]), <<"|">>, 1)
                /\ Count(Captured(j - 1), "{") = Count(Captured(j - 1), "}")}
    IN  IF InfoboxStart(text) = 0 \/ G = {} THEN None
        ELSE Captured(IF E = {} THEN Len(lines) ELSE MinOf(E) - 1)

C5_FieldEndsAtNextField ==
    content # None => genre_field = FieldByBoundaryRule(content)

\* C6: each of the five rock-and-roll spellings, in any letter case, normalizes to
\* "rock and roll".
C6_RockSpellings ==
    (npc # "start" /\ Lower(raw) \in rock_variations) => once = RockAndRoll

\* C7: where the braces of a list template never balance, the matched span is the
\* text from the template's opening braces to the end of the input.
C7_UnclosedSpanRunsToEnd ==
    LET text == CleanField(field_text)
        template_start == ListTemplateStart(text)
    IN  (ppc # "start" /\ template_start # 0
            /\ ScanBraces(text, template_start, 0, "{", "}") = 0)
        => template_span = SubSeq(text, template_start, Len(text))

\* C8: when the loop is over, the mapping has one key for each document that yielded
\* a genre, and the two counters add up to the number of documents.
C8_OneKeyPerDocument ==
    txt_files = {} =>
        /\ Cardinality(DOMAIN artist_genres) = success_count
        /\ success_count + failure_count = found

PipedLink == <<"[","[","P","o","p"," ","m","u","s","i","c","|","P","o","p","]","]">>

\* C9: in the plain format a link [[Target|Display]] yields the one label Display;
\* Target is not a label of the result.
C9_PipedLinkOneLabel ==
    \A ps \in PieceSeqs :
        (ppc = "done" /\ field_text = PlainField(ps) /\ InSeq(PipedLink, ps))
        => InSeq(<<"p","o","p">>, parsed) /\ ~InSeq(<<"p","o","p"," ","m","u","s","i","c">>, parsed)

\* C10: when the field text contains a list template, no label of the result keeps
\* a parenthetical unless the parenthetical holds early, later, late or mid.
C10_ParentheticalDropped ==
    (ppc = "done" /\ ListTemplateStart(field_text) # 0)
    => \A i \in 1..Len(parsed) :
          Contains(parsed[i], <<"(">>) => HasQualifierParen(parsed[i])

\* C11: once the nodes are added, and after every page processed, the node set of
\* the graph is exactly the known artist set, both ends of every edge are in that
\* set, and no edge goes from an artist to itself.
C11_EdgesBetweenDistinctArtists ==
    gpc = "pages" =>
        /\ nodes = artist_set(artist_list)
        /\ \A e \in edges :
            /\ e[1] \in artist_set(artist_list)
            /\ e[2] \in artist_set(artist_list)
            /\ e[1] # e[2]

\* The part of C11 that does not depend on the two ends being different: the node
\* set is the artist set, every edge starts at an artist that had a page and ends at
\* an artist of the set that is in that page's list of links.
NetworkWithinArtistSet ==
    gpc = "pages" =>
        /\ nodes = artist_set(artist_list)
        /\ \A e \in edges :
            /\ e[1] \in DOMAIN links_found /\ e[1] \in artist_set(artist_list)
            /\ e[2] \in artist_set(artist_list)
            /\ InSeq(e[2], links_found[e[1]])

====
